---- MODULE Spec2Model ----
(***************************************************************************)
(* Model of the Credit Card Fraud Detection API: the POST /predict handler *)
(* of src/main.py and the Transaction / Prediction schemas of              *)
(* src/schemas.py.                                                         *)
(*                                                                         *)
(* Numbers.  The handler computes with Python floats.  Here every real is  *)
(* a fixed-point integer counted in units of 1/ONE (ONE = 100000 stands    *)
(* for 1.0).  The numeric request fields range over whole numbers, for     *)
(* which every quotient and product of the handler is a whole number of    *)
(* such units, so the arithmetic below is the exact decimal arithmetic of  *)
(* the formula, without the last-bit rounding of binary floating point.    *)
(*                                                                         *)
(* A request body is a JSON object: a function from the keys it carries to *)
(* their values; a missing field is a key outside its DOMAIN.              *)
(***************************************************************************)
EXTENDS Integers, Sequences, FiniteSets, TLC

\* Number of request slots served side by side (bound of the model).
NumRequests == 3

Reqs == 1..NumRequests

\* ------------------------------------------------------------------------
\* Fixed-point representation and the constants of the scoring formula
\* ------------------------------------------------------------------------
ONE == 100000

ZERO == 0

AMOUNT_DIV == 500
HOME_DIV == 1000
LAST_DIV == 500
VELOCITY_DIV == 20

\* weights, in hundredths
W_AMOUNT == 25
W_HOME == 10
W_LAST == 10
W_NEW_MERCHANT == 10
W_ONLINE == 10
W_NO_CHIP == 8
W_NO_PIN == 8
W_INTERNATIONAL == 10
W_VELOCITY == 19
W_NIGHT == 10

\* label threshold 0.5, in hundredths
FRAUD_PCT == 50

\* explanation thresholds
HIGH_AMOUNT == 500
HIGH_VELOCITY == 5
FAR_FROM_HOME == 200

\* schema ranges
HOUR_MIN == 0
HOUR_MAX == 23
AGE_MIN == 16
AGE_MAX == 120

HTTP_OK == 200
HTTP_UNPROCESSABLE == 422

NightHours == {0, 1, 2, 3, 4}

Min(a, b) == IF a <= b THEN a ELSE b
Max(a, b) == IF a >= b THEN a ELSE b

\* x * (w / 100) for a fixed-point x and a weight w given in hundredths
Times(x, w) == (x * w) \div 100

\* Variant of Ratio: floor division (x // d) instead of true division.
RatioFloorDiv(x, d) == (x \div d) * ONE

\* x / d as a fixed-point number, for a whole number x
Ratio(x, d) == (x * ONE) \div d

\* ------------------------------------------------------------------------
\* Transaction schema (validation of the request body)
\* ------------------------------------------------------------------------
Required ==
    {"amount", "merchant", "category", "distance_from_home",
     "distance_from_last_transaction", "repeat_retailer", "used_chip",
     "used_pin_number", "online_order", "hour", "age", "international",
     "velocity_24h"}

\* Variant of FieldOk: the upper bound of hour is off by one (le=24).
FieldOkOffByOne(b, f) ==
    CASE f = "amount" -> b[f] >= 0
      [] f = "distance_from_home" -> b[f] >= 0
      [] f = "distance_from_last_transaction" -> b[f] >= 0
      [] f = "hour" -> b[f] >= HOUR_MIN /\ b[f] <= HOUR_MAX + 1
      [] f = "age" -> b[f] >= AGE_MIN /\ b[f] <= AGE_MAX
      [] f = "velocity_24h" -> b[f] >= 0
      [] OTHER -> TRUE

\* The constraint of one field, for a body that carries the field.
FieldOk(b, f) ==
    CASE f = "amount" -> b[f] >= 0
      [] f = "distance_from_home" -> b[f] >= 0
      [] f = "distance_from_last_transaction" -> b[f] >= 0
      [] f = "hour" -> b[f] >= HOUR_MIN /\ b[f] <= HOUR_MAX
      [] f = "age" -> b[f] >= AGE_MIN /\ b[f] <= AGE_MAX
      [] f = "velocity_24h" -> b[f] >= 0
      [] OTHER -> TRUE

\* The offending fields of a body: missing, or out of range.
ValidationErrors(b) ==
    {f \in Required : f \notin DOMAIN b \/ ~FieldOk(b, f)}

\* ------------------------------------------------------------------------
\* Risk scorer
\* ------------------------------------------------------------------------
Flat(cond, w) == IF cond THEN Times(ONE, w) ELSE 0

\* Variant of RawRisk: the distance_from_last_transaction term is subtracted
\* (risk -= ...) instead of added.
RawRiskSignSlip(t) ==
      Times(Min(Ratio(t.amount, AMOUNT_DIV), ONE), W_AMOUNT)
    + Times(Min(Ratio(t.distance_from_home, HOME_DIV), ONE), W_HOME)
    - Times(Min(Ratio(t.distance_from_last_transaction, LAST_DIV), ONE), W_LAST)
    + Flat(~t.repeat_retailer, W_NEW_MERCHANT)
    + Flat(t.online_order, W_ONLINE)
    + Flat(~t.used_chip, W_NO_CHIP)
    + Flat(~t.used_pin_number, W_NO_PIN)
    + Flat(t.international, W_INTERNATIONAL)
    + Times(Min(Ratio(t.velocity_24h, VELOCITY_DIV), ONE), W_VELOCITY)
    + Flat(t.hour \in NightHours, W_NIGHT)

\* Variant of RawRisk: the ratios are not capped at 1.0 (the min(..., 1.0)
\* are missing).
RawRiskUncapped(t) ==
      Times(Ratio(t.amount, AMOUNT_DIV), W_AMOUNT)
    + Times(Ratio(t.distance_from_home, HOME_DIV), W_HOME)
    + Times(Ratio(t.distance_from_last_transaction, LAST_DIV), W_LAST)
    + Flat(~t.repeat_retailer, W_NEW_MERCHANT)
    + Flat(t.online_order, W_ONLINE)
    + Flat(~t.used_chip, W_NO_CHIP)
    + Flat(~t.used_pin_number, W_NO_PIN)
    + Flat(t.international, W_INTERNATIONAL)
    + Times(Ratio(t.velocity_24h, VELOCITY_DIV), W_VELOCITY)
    + Flat(t.hour \in NightHours, W_NIGHT)

\* The raw (unclamped) sum of the ten contributions.
RawRisk(t) ==
      Times(Min(Ratio(t.amount, AMOUNT_DIV), ONE), W_AMOUNT)
    + Times(Min(Ratio(t.distance_from_home, HOME_DIV), ONE), W_HOME)
    + Times(Min(Ratio(t.distance_from_last_transaction, LAST_DIV), ONE), W_LAST)
    + Flat(~t.repeat_retailer, W_NEW_MERCHANT)
    + Flat(t.online_order, W_ONLINE)
    + Flat(~t.used_chip, W_NO_CHIP)
    + Flat(~t.used_pin_number, W_NO_PIN)
    + Flat(t.international, W_INTERNATIONAL)
    + Times(Min(Ratio(t.velocity_24h, VELOCITY_DIV), ONE), W_VELOCITY)
    + Flat(t.hour \in NightHours, W_NIGHT)

\* Variant of Clamp: the upper clamp is missing (max(0.0, risk)).
ClampNoCeiling(x) == Max(ZERO, x)

Clamp(x) == Max(ZERO, Min(x, ONE))

\* Variant of LabelOf: strict comparison (score > 0.5).
LabelOfStrict(s) == IF s > Times(ONE, FRAUD_PCT) THEN "Fraud" ELSE "Legit"

LabelOf(s) == IF s >= Times(ONE, FRAUD_PCT) THEN "Fraud" ELSE "Legit"

\* reasons.append(name) when cond holds
AppendIf(rs, cond, name) == IF cond THEN Append(rs, name) ELSE rs

\* Variant of Reasons: "high amount" fires from 500 on (>= instead of >).
ReasonsAtLeast(t) ==
    LET r1 == AppendIf(<<>>, t.amount >= HIGH_AMOUNT, "high amount")
        r2 == AppendIf(r1, t.international, "international")
        r3 == AppendIf(r2, t.online_order, "online order")
        r4 == AppendIf(r3, ~t.repeat_retailer, "new merchant")
        r5 == AppendIf(r4, ~t.used_chip, "no chip")
        r6 == AppendIf(r5, ~t.used_pin_number, "no PIN")
        r7 == AppendIf(r6, t.velocity_24h > HIGH_VELOCITY, "high velocity")
        r8 == AppendIf(r7, t.distance_from_home > FAR_FROM_HOME, "far from home")
        r9 == AppendIf(r8, t.hour \in NightHours, "night time")
    IN  r9

\* Variant of Reasons: the "new merchant" line is missing.
ReasonsNoMerchant(t) ==
    LET r1 == AppendIf(<<>>, t.amount > HIGH_AMOUNT, "high amount")
        r2 == AppendIf(r1, t.international, "international")
        r3 == AppendIf(r2, t.online_order, "online order")
        r5 == AppendIf(r3, ~t.used_chip, "no chip")
        r6 == AppendIf(r5, ~t.used_pin_number, "no PIN")
        r7 == AppendIf(r6, t.velocity_24h > HIGH_VELOCITY, "high velocity")
        r8 == AppendIf(r7, t.distance_from_home > FAR_FROM_HOME, "far from home")
        r9 == AppendIf(r8, t.hour \in NightHours, "night time")
    IN  r9

\* The reasons list, built by the nine appends in the order of the code.
Reasons(t) ==
    LET r1 == AppendIf(<<>>, t.amount > HIGH_AMOUNT, "high amount")
        r2 == AppendIf(r1, t.international, "international")
        r3 == AppendIf(r2, t.online_order, "online order")
        r4 == AppendIf(r3, ~t.repeat_retailer, "new merchant")
        r5 == AppendIf(r4, ~t.used_chip, "no chip")
        r6 == AppendIf(r5, ~t.used_pin_number, "no PIN")
        r7 == AppendIf(r6, t.velocity_24h > HIGH_VELOCITY, "high velocity")
        r8 == AppendIf(r7, t.distance_from_home > FAR_FROM_HOME, "far from home")
        r9 == AppendIf(r8, t.hour \in NightHours, "night time")
    IN  r9

\* sep.join(xs)
RECURSIVE Join(_, _)
Join(xs, sep) ==
    IF xs = <<>> THEN ""
    ELSE IF Len(xs) = 1 THEN Head(xs)
    ELSE Head(xs) \o sep \o Join(Tail(xs), sep)

Explanation(rs) ==
    IF rs # <<>> THEN "Risk drivers: " \o Join(rs, ", ") ELSE "Low-risk pattern"

\* Prediction schema: score has ge=0, le=1; construction raises otherwise.
PredictionOk(s) == s >= 0 /\ s <= ONE

\* ------------------------------------------------------------------------
\* State
\* ------------------------------------------------------------------------
VARIABLES
    body,         \* body[r]: the JSON body of request r, or NoRequest
    pc,           \* pc[r]: where the handling of request r stands
    risk,         \* local of predict: the raw sum
    score,        \* local of predict
    label,        \* local of predict
    reasons,      \* local of predict
    explanation,  \* local of predict
    stored_id,    \* local of predict
    response,     \* response[r]: what the caller of request r received
    scorerRuns,   \* scorerRuns[r]: times the body of predict started for r
    storeCalls,   \* storeCalls[r]: calls of create_document made for r
    persistence,  \* persistence[r]: "none", "stored" or "failed"
    db            \* the "prediction" collection: documents in insertion order

vars == <<body, pc, risk, score, label, reasons, explanation, stored_id,
          response, scorerRuns, storeCalls, persistence, db>>

None == "None"
NoRequest == [none |-> TRUE]
NoResponse == [status |-> 0]

\* the identifier create_document returns for the n-th document
IdOf(n) == "id" \o ToString(n)

\* ------------------------------------------------------------------------
\* Request bodies the clients send
\* ------------------------------------------------------------------------
Txn(a, dh, dl, rr, chip, pin, online, h, ag, intl, v) ==
    [amount |-> a, merchant |-> "m", category |-> "c",
     distance_from_home |-> dh, distance_from_last_transaction |-> dl,
     repeat_retailer |-> rr, used_chip |-> chip, used_pin_number |-> pin,
     online_order |-> online, hour |-> h, age |-> ag, international |-> intl,
     velocity_24h |-> v]

\* the two worked examples: a low-risk purchase and an all-signals one
ExampleLegit == Txn(50, 5, 2, TRUE, TRUE, TRUE, FALSE, 14, 35, FALSE, 1)
ExampleFraud == Txn(2000, 1500, 800, FALSE, FALSE, FALSE, TRUE, 2, 40, TRUE, 25)

\* raw sums of exactly 0.5 and of just below it
AtThreshold == Txn(400, 1000, 500, FALSE, TRUE, TRUE, FALSE, 14, 35, FALSE, 0)
BelowThreshold == Txn(399, 1000, 500, FALSE, TRUE, TRUE, FALSE, 14, 35, FALSE, 0)

\* a body without the key f
Without(b, f) == [k \in DOMAIN b \ {f} |-> b[k]]

AmountVals == {0, 50, 500, 2000}
HomeVals == {5, 200, 1500}
LastVals == {2, 800}
VelocityVals == {1, 5, 6, 25}
HourVals == {2, 4, 5, 14}

\* valid transactions: every combination of the values above and of the flags
TxnGrid ==
    [amount : AmountVals, merchant : {"m"}, category : {"c"},
     distance_from_home : HomeVals, distance_from_last_transaction : LastVals,
     repeat_retailer : BOOLEAN, used_chip : BOOLEAN, used_pin_number : BOOLEAN,
     online_order : BOOLEAN, hour : HourVals, age : {35}, international : BOOLEAN,
     velocity_24h : VelocityVals]

\* values at and just outside the schema's ranges
EdgeValues ==
    {<<"amount", -1>>, <<"distance_from_home", -1>>,
     <<"distance_from_last_transaction", -1>>, <<"velocity_24h", -1>>,
     <<"hour", -1>>, <<"hour", 0>>, <<"hour", 23>>, <<"hour", 24>>,
     <<"age", 10>>, <<"age", 15>>, <<"age", 16>>, <<"age", 120>>, <<"age", 121>>}

\* the examples with one field at an edge value, or with one field missing
EdgeBodies ==
    {[b EXCEPT ![e[1]] = e[2]] : b \in {ExampleLegit, ExampleFraud}, e \in EdgeValues}
    \cup {Without(b, f) : b \in {ExampleLegit, ExampleFraud}, f \in Required}
    \cup {Without(Without(ExampleLegit, "age"), "hour"),
          [ExampleFraud EXCEPT !["amount"] = -1, !["hour"] = 24]}

ScorerBodies ==
    TxnGrid \cup EdgeBodies
    \cup {ExampleLegit, ExampleFraud, AtThreshold, BelowThreshold}

\* the fields the score is meant to grow with, and the values a second request
\* tries in one of them
MonoValues ==
    ({"amount"} \X {0, 50, 250, 500, 600, 2000})
    \cup ({"distance_from_home"} \X {5, 200, 999, 1000, 1500})
    \cup ({"distance_from_last_transaction"} \X {2, 250, 500, 800})
    \cup ({"velocity_24h"} \X {1, 5, 6, 19, 20, 25})

\* first bodies of a pair: the grid, with the card-present flags moving together
\* and the remote flags moving together
PairGrid ==
    {t \in TxnGrid :
        /\ t.repeat_retailer = t.used_chip
        /\ t.used_chip = t.used_pin_number
        /\ t.online_order = t.international
        /\ t.hour \in {2, 14}}

\* the bodies of the concurrent runs
ConcBodies ==
    {ExampleLegit, ExampleFraud, AtThreshold, [ExampleFraud EXCEPT !["hour"] = 24]}

\* ------------------------------------------------------------------------
\* Initial states
\* ------------------------------------------------------------------------
\* Requests with the bodies bs[r] have arrived; slots with NoRequest stay idle.
InitWith(bs) ==
    /\ body = bs
    /\ pc = [r \in Reqs |-> IF bs[r] = NoRequest THEN "idle" ELSE "received"]
    /\ risk = [r \in Reqs |-> 0]
    /\ score = [r \in Reqs |-> 0]
    /\ label = [r \in Reqs |-> ""]
    /\ reasons = [r \in Reqs |-> <<>>]
    /\ explanation = [r \in Reqs |-> ""]
    /\ stored_id = [r \in Reqs |-> None]
    /\ response = [r \in Reqs |-> NoResponse]
    /\ scorerRuns = [r \in Reqs |-> 0]
    /\ storeCalls = [r \in Reqs |-> 0]
    /\ persistence = [r \in Reqs |-> "none"]
    /\ db = <<>>

\* one request, with any body of ScorerBodies
Init ==
    \E b \in ScorerBodies :
        InitWith([r \in Reqs |-> IF r = 1 THEN b ELSE NoRequest])

\* two requests whose bodies differ in at most one of the four numeric fields
InitPair ==
    \E b \in PairGrid, fv \in MonoValues :
        InitWith([r \in Reqs |->
                    IF r = 1 THEN b
                    ELSE IF r = 2 THEN [b EXCEPT ![fv[1]] = fv[2]]
                    ELSE NoRequest])

\* every slot holds a request, with any of ConcBodies
InitConc ==
    \E bs \in [Reqs -> ConcBodies] : InitWith(bs)

\* ------------------------------------------------------------------------
\* The handling of request r
\* ------------------------------------------------------------------------
\* The framework validates the body against Transaction before predict runs;
\* a violation is answered 422 with the offending fields.
Validate(r) ==
    /\ pc[r] = "received"
    /\ IF ValidationErrors(body[r]) = {}
       THEN /\ pc' = [pc EXCEPT ![r] = "score"]
            /\ UNCHANGED response
       ELSE /\ pc' = [pc EXCEPT ![r] = "done"]
            /\ response' = [response EXCEPT ![r] =
                   [status |-> HTTP_UNPROCESSABLE,
                    detail |-> ValidationErrors(body[r])]]
    /\ UNCHANGED <<body, risk, score, label, reasons, explanation, stored_id,
                   scorerRuns, storeCalls, persistence, db>>

\* Variant of Score: risk is a module-level accumulator that is not reset, so
\* a request starts from the largest raw sum the other requests have left.
ScoreCarriesOver(r) ==
    /\ pc[r] = "score"
    /\ LET others == {risk[q] : q \in Reqs \ {r}}
           carried == CHOOSE x \in others \cup {0} :
                          \A y \in others \cup {0} : y <= x
           raw == carried + RawRisk(body[r])
           s == Clamp(raw)
       IN  /\ risk' = [risk EXCEPT ![r] = raw]
           /\ score' = [score EXCEPT ![r] = s]
           /\ label' = [label EXCEPT ![r] = LabelOf(s)]
    /\ scorerRuns' = [scorerRuns EXCEPT ![r] = @ + 1]
    /\ pc' = [pc EXCEPT ![r] = "explain"]
    /\ UNCHANGED <<body, reasons, explanation, stored_id, response,
                   storeCalls, persistence, db>>

\* risk = sum of the ten rules; score = clamp; label by the threshold
Score(r) ==
    /\ pc[r] = "score"
    /\ LET raw == RawRisk(body[r])
           s == Clamp(raw)
       IN  /\ risk' = [risk EXCEPT ![r] = raw]
           /\ score' = [score EXCEPT ![r] = s]
           /\ label' = [label EXCEPT ![r] = LabelOf(s)]
    /\ scorerRuns' = [scorerRuns EXCEPT ![r] = @ + 1]
    /\ pc' = [pc EXCEPT ![r] = "explain"]
    /\ UNCHANGED <<body, reasons, explanation, stored_id, response,
                   storeCalls, persistence, db>>

\* the reasons and the explanation text
Explain(r) ==
    /\ pc[r] = "explain"
    /\ LET rs == Reasons(body[r])
       IN  /\ reasons' = [reasons EXCEPT ![r] = rs]
           /\ explanation' = [explanation EXCEPT ![r] = Explanation(rs)]
    /\ pc' = [pc EXCEPT ![r] = "persist"]
    /\ UNCHANGED <<body, risk, score, label, stored_id, response, scorerRuns,
                   storeCalls, persistence, db>>

\* Variant of OnPersistError: the exception is not caught and the request is
\* answered 500.
OnPersistErrorRaises(r) ==
    /\ response' = [response EXCEPT ![r] = [status |-> 500]]
    /\ persistence' = [persistence EXCEPT ![r] = "failed"]
    /\ pc' = [pc EXCEPT ![r] = "done"]
    /\ UNCHANGED <<stored_id, db>>

\* except Exception: stored_id = None, and the handler goes on to its return.
OnPersistError(r) ==
    /\ stored_id' = [stored_id EXCEPT ![r] = None]
    /\ persistence' = [persistence EXCEPT ![r] = "failed"]
    /\ pc' = [pc EXCEPT ![r] = "respond"]
    /\ UNCHANGED <<response, db>>

\* try: build the Prediction and store it.  Building it raises when the score
\* is outside the schema's range; create_document either inserts the document
\* and returns its identifier, or raises (the database is unavailable).
Persist(r) ==
    /\ pc[r] = "persist"
    /\ IF ~PredictionOk(score[r])
       THEN /\ OnPersistError(r)
            /\ UNCHANGED storeCalls
       ELSE /\ storeCalls' = [storeCalls EXCEPT ![r] = @ + 1]
            /\ \E ok \in BOOLEAN :
                 IF ok
                 THEN /\ db' = Append(db, [transaction |-> body[r],
                                           score |-> score[r],
                                           label |-> label[r],
                                           explanation |-> explanation[r]])
                      /\ stored_id' = [stored_id EXCEPT ![r] = IdOf(Len(db) + 1)]
                      /\ persistence' = [persistence EXCEPT ![r] = "stored"]
                      /\ pc' = [pc EXCEPT ![r] = "respond"]
                      /\ UNCHANGED response
                 ELSE OnPersistError(r)
    /\ UNCHANGED <<body, risk, score, label, reasons, explanation, scorerRuns>>

\* return PredictResponse(...)
Respond(r) ==
    /\ pc[r] = "respond"
    /\ response' = [response EXCEPT ![r] =
           [status |-> HTTP_OK, score |-> score[r], label |-> label[r],
            explanation |-> explanation[r], stored_id |-> stored_id[r]]]
    /\ pc' = [pc EXCEPT ![r] = "done"]
    /\ UNCHANGED <<body, risk, score, label, reasons, explanation, stored_id,
                   scorerRuns, storeCalls, persistence, db>>

Next ==
    \E r \in Reqs :
        \/ Validate(r)
        \/ Score(r)
        \/ Explain(r)
        \/ Persist(r)
        \/ Respond(r)

\* one request at a time, over the whole grid of bodies
Spec == Init /\ [][Next]_vars

\* two requests that differ in one numeric field
SpecPair == InitPair /\ [][Next]_vars

\* NumRequests requests served side by side
SpecConc == InitConc /\ [][Next]_vars

\* ------------------------------------------------------------------------
\* Properties
\* ------------------------------------------------------------------------
Answered(r) == response[r].status = HTTP_OK

\* the local variables of predict hold the result of scoring
Scored(r) == pc[r] \in {"explain", "persist", "respond", "done"} /\ scorerRuns[r] > 0

\* C1: for every valid Transaction the score predict returns lies between
\* 0.0 and 1.0, both included.
ScoreInUnitInterval ==
    \A r \in Reqs :
        /\ Scored(r) => score[r] >= 0 /\ score[r] <= ONE
        /\ Answered(r) => response[r].score >= 0 /\ response[r].score <= ONE

\* a request whose raw sum exceeds 1.0 was answered with the score 1.0
ScoreInUnitIntervalWitness ==
    \E r \in Reqs : Answered(r) /\ risk[r] > ONE /\ response[r].score = ONE

\* C2: the label is "Fraud" exactly when the clamped score is at least 0.5,
\* and "Legit" otherwise; there is no third label.
LabelIffHalfOrMore ==
    \A r \in Reqs :
        Answered(r) =>
            /\ response[r].label \in {"Fraud", "Legit"}
            /\ response[r].label = "Fraud" <=> 2 * response[r].score >= ONE
            /\ response[r].label = "Legit" <=> 2 * response[r].score < ONE

\* a request scoring exactly 0.5 was answered "Fraud"
LabelIffHalfOrMoreWitness ==
    \E r \in Reqs :
        Answered(r) /\ 2 * response[r].score = ONE /\ response[r].label = "Fraud"

MonoFields ==
    {"amount", "distance_from_home", "distance_from_last_transaction",
     "velocity_24h"}

\* a and b carry the same keys and agree on every key but f
OnlyDiffersIn(a, b, f) ==
    /\ DOMAIN a = DOMAIN b
    /\ f \in DOMAIN a
    /\ \A k \in DOMAIN a \ {f} : a[k] = b[k]

\* C3: of two valid Transactions that differ only in amount, in
\* distance_from_home, in distance_from_last_transaction or in velocity_24h,
\* the one with the larger value never scores lower, and a "Fraud" label never
\* becomes "Legit" by raising such a field.
ScoreMonotone ==
    \A p, q \in Reqs : \A f \in MonoFields :
        ( /\ Answered(p)
          /\ Answered(q)
          /\ OnlyDiffersIn(body[p], body[q], f)
          /\ body[q][f] > body[p][f] )
        => /\ response[q].score >= response[p].score
           /\ response[p].label = "Fraud" => response[q].label = "Fraud"

\* raising one field raised the score and turned "Legit" into "Fraud"
ScoreMonotoneWitness ==
    \E p, q \in Reqs : \E f \in MonoFields :
        /\ Answered(p)
        /\ Answered(q)
        /\ OnlyDiffersIn(body[p], body[q], f)
        /\ body[q][f] > body[p][f]
        /\ response[q].score > response[p].score
        /\ response[p].label = "Legit"
        /\ response[q].label = "Fraud"

SameVerdict(p, q) ==
    /\ response[p].score = response[q].score
    /\ response[p].label = response[q].label
    /\ response[p].explanation = response[q].explanation

\* C4: when the persistence step fails, the request is still answered 200
\* with stored_id null, and with the score, label and explanation that the
\* same Transaction gets when persistence succeeds.
PersistenceFailureMasked ==
    \A r \in Reqs :
        (pc[r] = "done" /\ persistence[r] = "failed") =>
            /\ response[r].status = HTTP_OK
            /\ response[r].stored_id = None
            /\ \A q \in Reqs :
                 ( /\ pc[q] = "done"
                   /\ persistence[q] = "stored"
                   /\ body[q] = body[r] )
                 => /\ response[q].status = HTTP_OK
                    /\ response[q].stored_id # None
                    /\ SameVerdict(r, q)

\* the same Transaction was answered once after a failed store and once
\* after a successful one
PersistenceFailureMaskedWitness ==
    \E r, q \in Reqs :
        /\ pc[r] = "done"
        /\ persistence[r] = "failed"
        /\ pc[q] = "done"
        /\ persistence[q] = "stored"
        /\ body[q] = body[r]
        /\ response[r].stored_id = None
        /\ response[q].stored_id # None

\* the schema violations, read off the field table
ViolatesSchema(b) ==
    \/ \E f \in Required : f \notin DOMAIN b
    \/ b.amount < 0
    \/ b.distance_from_home < 0
    \/ b.distance_from_last_transaction < 0
    \/ b.hour < 0
    \/ b.hour > 23
    \/ b.age < 16
    \/ b.age > 120
    \/ b.velocity_24h < 0

\* C5: a request whose body violates the Transaction schema is answered with
\* a 4xx validation error; the scorer never runs for it and no store call is
\* made for it.
InvalidBodyRejected ==
    \A r \in Reqs :
        (body[r] # NoRequest /\ ViolatesSchema(body[r])) =>
            /\ scorerRuns[r] = 0
            /\ storeCalls[r] = 0
            /\ persistence[r] = "none"
            /\ db = <<>>
            /\ pc[r] \in {"received", "done"}
            /\ pc[r] = "done" =>
                   response[r].status >= 400 /\ response[r].status <= 499

\* the body with hour = 24 was answered 422, naming the field
InvalidBodyRejectedWitness ==
    \E r \in Reqs :
        /\ body[r] = [ExampleFraud EXCEPT !["hour"] = 24]
        /\ pc[r] = "done"
        /\ response[r].status = HTTP_UNPROCESSABLE
        /\ response[r].detail = {"hour"}

\* x rounded to three decimals, in thousandths
Thousandths(x) == (x * 1000 + ONE \div 2) \div ONE

\* C6 as stated: for the low-risk example the raw sum and the score are
\* about 0.025 (0.025 to three decimals), the label is "Legit" and the
\* explanation is "Low-risk pattern".
ExampleLegitScoresAmountTermOnly ==
    \A r \in Reqs :
        (Answered(r) /\ body[r] = ExampleLegit) =>
            /\ Thousandths(risk[r]) = 25
            /\ Thousandths(response[r].score) = 25
            /\ response[r].label = "Legit"
            /\ response[r].explanation = "Low-risk pattern"

\* C6 amended: for the low-risk example the raw sum and the score are 0.0354
\* (0.025 + 0.0005 + 0.0004 + 0.0095), the label is "Legit" and the
\* explanation is "Low-risk pattern".
ExampleLegitScore ==
    \A r \in Reqs :
        (Answered(r) /\ body[r] = ExampleLegit) =>
            /\ risk[r] * 10000 = 354 * ONE
            /\ response[r].score * 10000 = 354 * ONE
            /\ response[r].label = "Legit"
            /\ response[r].explanation = "Low-risk pattern"

\* the low-risk example was answered
ExampleLegitScoreWitness ==
    \E r \in Reqs :
        /\ Answered(r)
        /\ body[r] = ExampleLegit
        /\ response[r].stored_id # None

\* every maximal-contribution condition holds
AllMax(t) ==
    /\ t.amount >= 500
    /\ t.distance_from_home >= 1000
    /\ t.distance_from_last_transaction >= 500
    /\ ~t.repeat_retailer
    /\ t.online_order
    /\ ~t.used_chip
    /\ ~t.used_pin_number
    /\ t.international
    /\ t.velocity_24h >= 20
    /\ t.hour \in 0..4

EightReasonsText ==
    "Risk drivers: international, online order, new merchant, no chip, no PIN, high velocity, far from home, night time"

NineReasonsText ==
    "Risk drivers: high amount, international, online order, new merchant, no chip, no PIN, high velocity, far from home, night time"

\* C7 as stated: the raw sum never exceeds 1.20; when every
\* maximal-contribution condition holds it is 1.20, the score is 1.0, the
\* label is "Fraud" and the explanation lists all nine reasons.
MaxRawSumNineReasons ==
    \A r \in Reqs :
        Answered(r) =>
            /\ risk[r] * 100 <= 120 * ONE
            /\ AllMax(body[r]) =>
                 /\ risk[r] * 100 = 120 * ONE
                 /\ response[r].score = ONE
                 /\ response[r].label = "Fraud"
                 /\ response[r].explanation = NineReasonsText

\* C7 amended: the raw sum never exceeds 1.20; when every
\* maximal-contribution condition holds it is 1.20, the score is 1.0 and the
\* label is "Fraud"; the explanation then lists all nine reasons if amount
\* exceeds 500, and the eight other than "high amount" if amount is 500.
MaxRawSum ==
    \A r \in Reqs :
        Answered(r) =>
            /\ risk[r] * 100 <= 120 * ONE
            /\ AllMax(body[r]) =>
                 /\ risk[r] * 100 = 120 * ONE
                 /\ response[r].score = ONE
                 /\ response[r].label = "Fraud"
                 /\ body[r].amount > 500 =>
                        response[r].explanation = NineReasonsText
                 /\ body[r].amount = 500 =>
                        response[r].explanation = EightReasonsText

\* the all-signals example was answered with the raw sum 1.20
MaxRawSumWitness ==
    \E r \in Reqs :
        /\ Answered(r)
        /\ body[r] = ExampleFraud
        /\ risk[r] * 100 = 120 * ONE

ReasonOrder ==
    <<"high amount", "international", "online order", "new merchant",
      "no chip", "no PIN", "high velocity", "far from home", "night time">>

\* the condition of each reason
Fires(t, name) ==
    CASE name = "high amount" -> t.amount > 500
      [] name = "international" -> t.international
      [] name = "online order" -> t.online_order
      [] name = "new merchant" -> ~t.repeat_retailer
      [] name = "no chip" -> ~t.used_chip
      [] name = "no PIN" -> ~t.used_pin_number
      [] name = "high velocity" -> t.velocity_24h > 5
      [] name = "far from home" -> t.distance_from_home > 200
      [] name = "night time" -> t.hour \in 0..4

\* "Risk drivers: " and the elements of a non-empty xs with ", " between them
DriversText(xs) ==
    LET upTo[i \in 1..Len(xs)] ==
            IF i = 1 THEN xs[1] ELSE upTo[i - 1] \o ", " \o xs[i]
    IN  "Risk drivers: " \o upTo[Len(xs)]

\* C8: the explanation holds exactly the reasons whose own condition holds,
\* in the fixed order, joined with ", " after "Risk drivers: "; it is
\* "Low-risk pattern" exactly when no reason fires.
ExplanationListsFiringReasons ==
    \A r \in Reqs :
        Answered(r) =>
            LET firing == SelectSeq(ReasonOrder, LAMBDA n : Fires(body[r], n))
            IN  /\ reasons[r] = firing
                /\ response[r].explanation =
                       IF firing = <<>> THEN "Low-risk pattern"
                       ELSE DriversText(firing)
                /\ response[r].explanation = "Low-risk pattern"
                       <=> \A i \in 1..Len(ReasonOrder) :
                               ~Fires(body[r], ReasonOrder[i])

\* three reasons, not adjacent in the order, were listed for a request whose
\* amount is exactly 500
ExplanationListsFiringReasonsWitness ==
    \E r \in Reqs :
        /\ Answered(r)
        /\ body[r].amount = 500
        /\ response[r].explanation =
               "Risk drivers: international, no PIN, far from home"

\* C9: under any interleaving of the requests and any mix of persistence
\* outcomes, two requests carrying identical Transactions get identical
\* (score, label, explanation).
SameTransactionSameVerdict ==
    \A p, q \in Reqs :
        (Answered(p) /\ Answered(q) /\ body[p] = body[q]) => SameVerdict(p, q)

\* two requests with the same Transaction were both answered, each after its
\* own document was stored, next to a request with another Transaction whose
\* store failed
SameTransactionSameVerdictWitness ==
    \E p, q \in Reqs :
        /\ p # q
        /\ Answered(p)
        /\ Answered(q)
        /\ body[p] = body[q]
        /\ persistence[p] = "stored"
        /\ persistence[q] = "stored"
        /\ response[p].stored_id # response[q].stored_id
        /\ \E o \in Reqs \ {p, q} :
               /\ Answered(o)
               /\ body[o] # body[p]
               /\ persistence[o] = "failed"

\* C10: no valid Transaction is labelled "Fraud" with the explanation
\* "Low-risk pattern": whenever the score is at least 0.5 a reason fires.
FraudHasReason ==
    \A r \in Reqs :
        Answered(r) =>
            ~(response[r].label = "Fraud"
              /\ response[r].explanation = "Low-risk pattern")

\* a request was labelled "Fraud" on a single reason, its other terms being
\* the largest that fire no reason (raw sum 0.4175 + 0.1)
FraudHasReasonWitness ==
    \E r \in Reqs :
        /\ Answered(r)
        /\ response[r].label = "Fraud"
        /\ reasons[r] = <<"new merchant">>
        /\ risk[r] * 10000 = 5175 * ONE

====
